---------------------------- MODULE Spec2Model ----------------------------
(***************************************************************************)
(* DockSens: the project generator setup_project.py and the Swift sources  *)
(* it emits (AppState, WindowManager, WindowEngine, StoreService).         *)
(*                                                                         *)
(* Two specifications share the variables of this module:                  *)
(*   Spec     the generated AppState with its WindowManager and its        *)
(*            StoreService, driven by toggleSwitcher calls and by the      *)
(*            purchase status stream;                                      *)
(*   SpecGen  one run of main() of the generator over a files_config.      *)
(*                                                                         *)
(* Strings are sequences of tokens.  A token is a whitespace character     *)
(* (" " or "\n"), a separator ("." or "/"), or a chunk of text holding     *)
(* none of these; strip, dedent, dirname, endswith and split only ever     *)
(* look at whitespace and separators.                                      *)
(***************************************************************************)
EXTENDS Integers, Sequences, FiniteSets, TLC

VARIABLES
    \* ---- AppState (src/setup_project.py:146-184)
    runningWindows,     \* AppState.runningWindows : [WindowInfo]
    isSwitcherVisible,  \* AppState.isSwitcherVisible
    isPro,              \* AppState.isPro
    \* ---- StoreService.proStatusStream (src/setup_project.py:237-257)
    proBuffer,          \* elements yielded to the AsyncStream<Bool>, not yet consumed
    initialStatusSent,  \* the first Task { await updateStatus(...) } has run
    \* ---- WindowManager (src/setup_project.py:196-207)
    switcherPanel,      \* WindowManager.switcherPanel : NSPanel?
    panelCalls,         \* showSwitcher / hideSwitcher calls received, in order
    toggles,            \* number of toggleSwitcher calls made so far
    \* ---- setup_project.main (src/setup_project.py:34-384)
    files_config,       \* the dictionary, as the sequence of its entries in order
    idx,                \* position of the for loop of main in files_config
    pc,                 \* "loop" | "done" | "error" (an exception left main)
    dirs,               \* directories that exist
    fs,                 \* files written: path |-> data
    created             \* create_file calls that returned: <<[path, data], ...>>

appVars == <<runningWindows, isSwitcherVisible, isPro, proBuffer,
             initialStatusSent, switcherPanel, panelCalls, toggles>>
genVars == <<files_config, idx, pc, dirs, fs, created>>
vars == <<appVars, genVars>>

----------------------------------------------------------------------------
(* Bounds of the model. *)
MaxToggles == 5
MaxBuffer == 3
MaxFiles == 3

----------------------------------------------------------------------------
(***************************************************************************)
(* StoreService                                                            *)
(***************************************************************************)
proProductID == "com.docksens.pro.lifetime"

ProductIDs == {proProductID, "com.docksens.other"}

\* One element of Transaction.currentEntitlements: a verification result
\* wrapping a transaction.
EntitlementResults == [verified : BOOLEAN, productID : ProductIDs]

\* What Transaction.currentEntitlements may hold when updateStatus reads it.
EntitlementSets == {{}} \cup {{r} : r \in EntitlementResults}
                        \cup {{r, s} : r, s \in EntitlementResults}

\* updateStatus: hasPro is true iff some entitlement is verified and is the
\* pro product; that value is yielded to the stream.
updateStatus(entitlements, buffer) ==
    LET hasPro == \E r \in entitlements :
                      r.verified /\ r.productID = proProductID
    IN  Append(buffer, hasPro)

\* proStatusStream, first Task: updateStatus once when the stream is built.
InitialUpdateStatus ==
    /\ ~initialStatusSent
    /\ Len(proBuffer) < MaxBuffer
    /\ \E ents \in EntitlementSets : proBuffer' = updateStatus(ents, proBuffer)
    /\ initialStatusSent' = TRUE
    /\ UNCHANGED <<runningWindows, isSwitcherVisible, isPro, switcherPanel,
                   panelCalls, toggles, genVars>>

\* proStatusStream, second Task: updateStatus again for every element of
\* Transaction.updates.
TransactionUpdate ==
    /\ Len(proBuffer) < MaxBuffer
    /\ \E ents \in EntitlementSets : proBuffer' = updateStatus(ents, proBuffer)
    /\ UNCHANGED <<runningWindows, isSwitcherVisible, isPro, initialStatusSent,
                   switcherPanel, panelCalls, toggles, genVars>>

----------------------------------------------------------------------------
(***************************************************************************)
(* WindowManager                                                           *)
(***************************************************************************)
\* showSwitcher() { /* ... */ }: the call is received, nothing else changes.
showSwitcher(calls) == Append(calls, "showSwitcher")

\* hideSwitcher() { switcherPanel?.orderOut(nil) }: the panel is nil for the
\* whole life of the manager (nothing assigns it), so orderOut is skipped.
hideSwitcher(calls) == Append(calls, "hideSwitcher")

\* WindowEngine.scanWindows() { return [] }: no window is ever reported.  Nothing
\* calls it: WindowManager.engine is private and unused.
scanWindows == << >>

\* windowsStream() returns AsyncStream { _ in }: the build closure drops the
\* continuation, so the stream never yields and never finishes.
windowsStream == << >>

----------------------------------------------------------------------------
(***************************************************************************)
(* AppState                                                                *)
(***************************************************************************)
\* toggleSwitcher with the hide branch leaving isSwitcherVisible as it was.
toggleSwitcher_StaysVisible ==
    /\ toggles < MaxToggles
    /\ toggles' = toggles + 1
    /\ IF ~isSwitcherVisible
         THEN /\ panelCalls' = showSwitcher(panelCalls)
              /\ isSwitcherVisible' = TRUE
         ELSE /\ panelCalls' = hideSwitcher(panelCalls)
              /\ isSwitcherVisible' = isSwitcherVisible
    /\ UNCHANGED <<runningWindows, isPro, proBuffer, initialStatusSent,
                   switcherPanel, genVars>>

\* toggleSwitcher(): hide when visible, show otherwise.
toggleSwitcher ==
    /\ toggles < MaxToggles
    /\ toggles' = toggles + 1
    /\ IF ~isSwitcherVisible
         THEN /\ panelCalls' = showSwitcher(panelCalls)
              /\ isSwitcherVisible' = TRUE
         ELSE /\ panelCalls' = hideSwitcher(panelCalls)
              /\ isSwitcherVisible' = FALSE
    /\ UNCHANGED <<runningWindows, isPro, proBuffer, initialStatusSent,
                   switcherPanel, genVars>>

\* startMonitoringPurchases: for await status in proStatusStream() { isPro = status }
startMonitoringPurchases ==
    /\ proBuffer # << >>
    /\ isPro' = Head(proBuffer)
    /\ proBuffer' = Tail(proBuffer)
    /\ UNCHANGED <<runningWindows, isSwitcherVisible, initialStatusSent,
                   switcherPanel, panelCalls, toggles, genVars>>

\* startMonitoringWindows: for await windows in windowsStream() { ... }.  The
\* loop body needs an element of the stream; windowsStream never has one, so
\* the task stays suspended and is no step of the system.
startMonitoringWindows ==
    /\ windowsStream # << >>
    /\ runningWindows' = Head(windowsStream)
    /\ UNCHANGED <<isSwitcherVisible, isPro, proBuffer, initialStatusSent,
                   switcherPanel, panelCalls, toggles, genVars>>

----------------------------------------------------------------------------
(***************************************************************************)
(* Strings of the generator                                                *)
(***************************************************************************)
SP == " "
NL == "\n"
DOT == "."
SLASH == "/"

IsSpace(c) == c \in {SP, NL}

Min(S) == CHOOSE x \in S : \A y \in S : x <= y

Max(S) == CHOOSE x \in S : \A y \in S : y <= x

\* str.strip(): leading and trailing whitespace removed.
Strip(s) ==
    LET solid == {i \in DOMAIN s : ~IsSpace(s[i])}
    IN  IF solid = {} THEN << >> ELSE SubSeq(s, Min(solid), Max(solid))

\* str.split(sep): the pieces between the separators.
Split(s, sep) ==
    LET cuts == {i \in DOMAIN s : s[i] = sep}
        n == Cardinality(cuts) + 1
        cut(k) == CHOOSE i \in cuts : Cardinality({j \in cuts : j < i}) = k - 1
    IN  [k \in 1..n |->
           SubSeq(s, IF k = 1 THEN 1 ELSE cut(k - 1) + 1,
                     IF k = n THEN Len(s) ELSE cut(k) - 1)]

RECURSIVE Join(_, _)
\* sep.join(parts)
Join(parts, sep) ==
    IF parts = << >> THEN << >>
    ELSE IF Len(parts) = 1 THEN parts[1]
    ELSE parts[1] \o sep \o Join(Tail(parts), sep)

\* str.endswith(suffix)
EndsWith(s, suffix) ==
    /\ Len(suffix) <= Len(s)
    /\ SubSeq(s, Len(s) - Len(suffix) + 1, Len(s)) = suffix

\* Length of the run of spaces a line starts with.
Indent(line) == Min({i \in DOMAIN line : line[i] # SP} \cup {Len(line) + 1}) - 1

\* textwrap.dedent: lines of whitespace only become empty, the margin is the
\* indentation common to the other lines, and it is removed from each.
dedent(text) ==
    LET lines == Split(text, NL)
        norm == [i \in DOMAIN lines |->
                   IF Indent(lines[i]) = Len(lines[i]) THEN << >> ELSE lines[i]]
        indents == {Indent(norm[i]) : i \in {j \in DOMAIN norm : norm[j] # << >>}}
        margin == IF indents = {} THEN 0 ELSE Min(indents)
    IN  Join([i \in DOMAIN norm |->
                IF norm[i] = << >> THEN << >>
                ELSE SubSeq(norm[i], margin + 1, Len(norm[i]))], <<NL>>)

\* os.path.dirname of a relative path: what precedes its last "/".
dirname(path) ==
    LET cuts == {i \in DOMAIN path : path[i] = SLASH}
    IN  IF cuts = {} THEN << >>
        ELSE SubSeq(path, 1, (CHOOSE i \in cuts : \A j \in cuts : j <= i) - 1)

\* os.makedirs(d): d and every missing directory above it.
makedirs(d, existing) ==
    existing \cup {d}
             \cup {SubSeq(d, 1, i - 1) : i \in {j \in DOMAIN d : d[j] = SLASH}}

----------------------------------------------------------------------------
(***************************************************************************)
(* setup_project.py                                                        *)
(***************************************************************************)
\* The eight spaces every line of the header template starts with.
Margin == <<SP, SP, SP, SP, SP, SP, SP, SP>>

\* "\n".join([f"import {lib}" for lib in imports])
import_stmts(imports) ==
    Join([i \in DOMAIN imports |-> <<"import", SP, imports[i]>>], <<NL>>)

\* generate_header: the template with its fields filled in, then dedented.
generate_header(filename, imports, intent) ==
    dedent(Join(<<
        << >>,
        Margin \o <<"//">>,
        Margin \o <<"//", SP, SP>> \o filename,
        Margin \o <<"//", SP, SP, "DockSens">>,
        Margin \o <<"//">>,
        Margin \o <<"//", SP, SP, "Created", SP, "by", SP, "DockSens", SP,
                    "Setup", SP, "Script", DOT>>,
        Margin \o <<"//">>,
        << >>,
        Margin \o import_stmts(imports),
        << >>,
        Margin \o <<"//", SP, "TODO:", SP>> \o intent,
        Margin \o <<"//", SP, "---------">>,
        Margin,
        Margin >>, <<NL>>))

\* f"// 代码实现...\n// class {filename.split('.')[0]} {{ }}"
placeholder(filename) ==
    <<"//", SP, "...", NL, "//", SP, "class", SP>> \o Split(filename, DOT)[1]
        \o <<SP, "{", SP, "}">>

\* create_file writing content + "\n" without stripping it.
create_file_NoStrip(path, content, d, f) ==
    LET dir_name == dirname(path)
        d2 == IF dir_name # << >> /\ dir_name \notin d
                THEN makedirs(dir_name, d) ELSE d
        data == content \o <<NL>>
        opened == dir_name = << >> \/ dir_name \in d2
    IN  [ok |-> opened,
         dirs |-> d2,
         data |-> data,
         fs |-> IF opened
                  THEN [p \in DOMAIN f \cup {path} |->
                          IF p = path THEN data ELSE f[p]]
                  ELSE f]

\* create_file(path, content): make the parent directory when it is named and
\* missing, then open the file for writing (which fails when its directory
\* does not exist) and write content.strip() + "\n".
create_file(path, content, d, f) ==
    LET dir_name == dirname(path)
        d2 == IF dir_name # << >> /\ dir_name \notin d
                THEN makedirs(dir_name, d) ELSE d
        data == Strip(content) \o <<NL>>
        opened == dir_name = << >> \/ dir_name \in d2
    IN  [ok |-> opened,
         dirs |-> d2,
         data |-> data,
         fs |-> IF opened
                  THEN [p \in DOMAIN f \cup {path} |->
                          IF p = path THEN data ELSE f[p]]
                  ELSE f]

\* What one pass of the for loop of main hands to create_file.
file_content(filename, imports, intent, content) ==
    IF EndsWith(filename, <<DOT, "xcstrings">>)
      THEN content
      ELSE generate_header(filename, imports, intent)
             \o (IF content # << >> THEN content ELSE placeholder(filename))

\* main, one pass of: for path, (filename, imports, intent, content) in
\* files_config.items()
mainLoop ==
    /\ pc = "loop"
    /\ idx <= Len(files_config)
    /\ LET e == files_config[idx]
           r == create_file(e.path,
                            file_content(e.filename, e.imports, e.intent, e.content),
                            dirs, fs)
       IN  /\ dirs' = r.dirs
           /\ fs' = r.fs
           /\ IF r.ok
                THEN /\ created' = Append(created, [path |-> e.path, data |-> r.data])
                     /\ idx' = idx + 1
                     /\ pc' = pc
                ELSE /\ pc' = "error"
                     /\ UNCHANGED <<created, idx>>
    /\ UNCHANGED <<files_config, appVars>>

\* main, after the loop: the closing prints, and main returns.
mainReturn ==
    /\ pc = "loop"
    /\ idx > Len(files_config)
    /\ pc' = "done"
    /\ UNCHANGED <<files_config, idx, dirs, fs, created, appVars>>

root_dir == "DockSens_Project_Structure"

\* Entries of files_config, one of each shape the dictionary of main holds,
\* and one with no directory and no content (the placeholder branch).
XcstringsEntry ==
    [path |-> <<root_dir, SLASH, "Resources", SLASH, "Localizable", DOT, "xcstrings">>,
     filename |-> <<"Localizable", DOT, "xcstrings">>,
     imports |-> << >>,
     intent |-> <<"String", SP, "Catalog">>,
     content |-> <<"{", NL, SP, SP, "json", NL, "}">>]

DockSensAppEntry ==
    [path |-> <<root_dir, SLASH, "App", SLASH, "DockSensApp", DOT, "swift">>,
     filename |-> <<"DockSensApp", DOT, "swift">>,
     imports |-> <<"SwiftUI", "AppIntents">>,
     intent |-> <<"App">>,
     content |-> <<NL, "@main", NL, "struct", NL, "}", NL, SP, SP, SP, SP>>]

PermissionsEntry ==
    [path |-> <<root_dir, SLASH, "Utilities", SLASH, "Permissions", DOT, "swift">>,
     filename |-> <<"Permissions", DOT, "swift">>,
     imports |-> <<"AppKit">>,
     intent |-> <<"permissions">>,
     content |-> <<"enum", SP, "Permissions">>]

EmptyEntry ==
    [path |-> <<"Empty", DOT, "swift">>,
     filename |-> <<"Empty", DOT, "swift">>,
     imports |-> << >>,
     intent |-> <<"empty">>,
     content |-> << >>]

Entries == {XcstringsEntry, DockSensAppEntry, PermissionsEntry, EmptyEntry}

\* Dictionaries of at most MaxFiles entries: keys (paths) are distinct.
Configs ==
    {c \in UNION {[1..n -> Entries] : n \in 0..MaxFiles} :
        \A i, j \in DOMAIN c : i # j => c[i].path # c[j].path}

\* Directories that may exist before the run: any of those the run could
\* create, each with the directories above it.
AllDirs == UNION {makedirs(dirname(e.path), {}) : e \in Entries} \ {<< >>}

DirChoices == {D \in SUBSET AllDirs : \A x \in D : makedirs(x, {}) \subseteq D}

InitGen ==
    /\ files_config \in Configs
    /\ idx = 1
    /\ pc = "loop"
    /\ dirs \in DirChoices
    /\ fs = << >>
    /\ created = << >>

NextGen == mainLoop \/ mainReturn

----------------------------------------------------------------------------
GenIdle ==
    /\ files_config = << >>
    /\ idx = 1
    /\ pc = "done"
    /\ dirs = {}
    /\ fs = << >>
    /\ created = << >>

\* AppState(): the stored properties' initial values; init() only starts the
\* two monitoring tasks.
InitApp ==
    /\ runningWindows = << >>
    /\ isSwitcherVisible = FALSE
    /\ isPro = FALSE
    /\ proBuffer = << >>
    /\ initialStatusSent = FALSE
    /\ switcherPanel = "nil"
    /\ panelCalls = << >>
    /\ toggles = 0

Init == InitApp /\ GenIdle

Next ==
    \/ toggleSwitcher
    \/ startMonitoringPurchases
    \/ InitialUpdateStatus
    \/ TransactionUpdate

Spec == Init /\ [][Next]_vars

GenInit == InitApp /\ InitGen

SpecGen == GenInit /\ [][NextGen]_vars

----------------------------------------------------------------------------
(***************************************************************************)
(* Properties                                                              *)
(***************************************************************************)
Odd(n) == n % 2 = 1

\* C1: no reachable state has the switcher visible while the window list is
\* empty (a trigger arriving with no candidates leaves the switcher hidden).
C1_NoCandidatesGuard == ~(isSwitcherVisible /\ runningWindows = << >>)

\* C9: after n toggleSwitcher calls isSwitcherVisible is true iff n is odd;
\* every call makes exactly one WindowManager call, showSwitcher when the
\* switcher was hidden and hideSwitcher when it was visible, so the calls
\* alternate beginning with showSwitcher; and a toggleSwitcher step leaves
\* runningWindows and isPro as they were.
C9_ToggleParity ==
    /\ [](/\ isSwitcherVisible <=> Odd(toggles)
          /\ Len(panelCalls) = toggles
          /\ \A i \in DOMAIN panelCalls :
                panelCalls[i] = IF Odd(i) THEN "showSwitcher" ELSE "hideSwitcher")
    /\ [][toggles' # toggles =>
            /\ runningWindows' = runningWindows
            /\ isPro' = isPro]_vars

\* C9 witness: three calls made, the switcher visible, a purchase status
\* delivered in between.
C9_Witness ==
    /\ toggles = 3
    /\ isSwitcherVisible
    /\ isPro
    /\ panelCalls = <<"showSwitcher", "hideSwitcher", "showSwitcher">>

\* What the file of entry e must hold: the raw content for a .xcstrings
\* entry, otherwise the header followed by the content or, when the content
\* is empty, by the placeholder; stripped, with one newline after it.
C10_Expected(e) ==
    LET isCatalog == /\ Len(e.filename) >= 2
                     /\ e.filename[Len(e.filename) - 1] = DOT
                     /\ e.filename[Len(e.filename)] = "xcstrings"
        body == IF e.content = << >> THEN placeholder(e.filename) ELSE e.content
        text == IF isCatalog THEN e.content
                ELSE generate_header(e.filename, e.imports, e.intent) \o body
    IN  Strip(text) \o <<NL>>

\* C10: main calls create_file once per entry of files_config, in order, at
\* the entry's path, never raising; each call writes the expected text of
\* its entry; every file written lies in a directory that exists; and when
\* main returns every entry has been written.
C10_MainWritesEveryEntry ==
    /\ pc # "error"
    /\ Len(created) = idx - 1
    /\ pc = "done" => Len(created) = Len(files_config)
    /\ \A i \in DOMAIN created :
          /\ created[i].path = files_config[i].path
          /\ created[i].data = C10_Expected(files_config[i])
          /\ created[i].path \in DOMAIN fs
          /\ fs[created[i].path] = created[i].data
          /\ dirname(created[i].path) # << >> =>
                dirname(created[i].path) \in dirs
    /\ DOMAIN fs = {created[i].path : i \in DOMAIN created}

\* C10 witness: main has returned after writing a .xcstrings entry, an entry
\* with a header and content, and an entry with no content, into a tree
\* that held no directory of theirs beforehand.
C10_Witness ==
    /\ pc = "done"
    /\ files_config = <<XcstringsEntry, DockSensAppEntry, EmptyEntry>>
    /\ Len(created) = 3
    /\ dirs = makedirs(dirname(XcstringsEntry.path), {})
                \cup makedirs(dirname(DockSensAppEntry.path), {})

=============================================================================
